---------------------------- MODULE Spec2Model ----------------------------
(***************************************************************************)
(* Model of src/src/main.rs: the RepeatedWriter level encoder and the      *)
(* batched column transcoding loop of main.                                *)
(***************************************************************************)
EXTENDS Integers, Sequences, FiniteSets, TLC

(***************************************************************************)
(* Bounds of the model.                                                    *)
(***************************************************************************)
\* longest list offered to push besides names(NamesCount)
MaxListLen == 2
\* number of push calls explored
MaxPushes == 3
\* most column chunks in a source container (row groups times columns)
MaxChunks == 3
\* most level slots in a source container, over all its column chunks
MaxSlots == 3

(***************************************************************************)
(* Program constants.                                                      *)
(***************************************************************************)
\* names(4), main.rs:174-175
NamesCount == 4
\* the batch size: read_records(5, ..) into buffers of 5, main.rs:95-97, 117
BatchSize == 5

VARIABLES
    rw,          \* the RepeatedWriter: [values, def_levels, rep_levels]
    pushed,      \* history: the lists handed to push so far, in call order
    src,         \* reader: the source container, row groups of column chunks
    dstCols,     \* number of columns of the schema given to the writer
    batch,       \* the batch size B (5 in main)
    dst,         \* writer: the row groups finalized so far
    rgw,         \* column_group_writer: the columns finalized in the open row group
    cw,          \* column_writer: the chunk written so far to the open column
    cr,          \* column_reader: levels and values consumed so far
    i,           \* row group index
    j,           \* column index
    values,      \* the value buffer of main
    def_levels,  \* the definition level buffer of main
    rep_levels,  \* the repetition level buffer of main
    values_read, \* result of the last read_records
    levels_read, \* result of the last read_records
    pc,          \* position in main
    pass,        \* 1 in the first transcode, 2 in a second one
    first,       \* the container the first transcode produced
    colTypes,    \* physical type per column: [src] of the reader, [dst] of the writer
    failure,     \* "none", or the engine call that returned Err
    acquired,    \* history: the <<row group, column>> pairs acquired so far
    finalized    \* history: the <<row group, column>> pairs whose writer was closed

encVars == <<rw, pushed>>
txVars == <<src, dstCols, batch, dst, rgw, cw, cr, i, j, values, def_levels,
            rep_levels, values_read, levels_read, pc, pass, first,
            colTypes, failure, acquired, finalized>>
\* what the steps of the loop leave alone unless they say otherwise
envVars == <<rw, pushed, colTypes, failure>>
vars == <<encVars, txVars>>

(***************************************************************************)
(* Helpers.                                                                *)
(***************************************************************************)
Last(s) == s[Len(s)]

\* Vec::resize(new_len, value): truncate, or extend with copies of value
Resize(s, new_len, value) ==
    IF new_len <= Len(s)
    THEN SubSeq(s, 1, new_len)
    ELSE s \o [k \in 1..(new_len - Len(s)) |-> value]

\* the decimal digits of i as ASCII bytes, as format!("{i}") writes them
RECURSIVE Digits(_)
Digits(n) ==
    IF n < 10 THEN <<48 + n>> ELSE Digits(n \div 10) \o <<48 + (n % 10)>>

\* format!("Name {i}").into_bytes()
NameBytes(n) == <<78, 97, 109, 101, 32>> \o Digits(n)

\* names(count): the byte strings "Name 0" .. "Name count-1"
names(count) == [k \in 1..count |-> NameBytes(k - 1)]

(***************************************************************************)
(* RepeatedWriter                                                          *)
(***************************************************************************)
\* RepeatedWriter::new()
RepeatedWriterNew == [values |-> <<>>, def_levels |-> <<>>, rep_levels |-> <<>>]

\* mutant: an empty list leaves no trace in the level arrays
PushEmptyOmitted(self) == self

\* mutant: an empty list is recorded with definition level 1
PushEmptyDefined(self) ==
    [self EXCEPT !.def_levels = Append(@, 1),
                 !.rep_levels = Append(@, 0)]

\* mutant: an empty list also pushes a default (empty) byte string
PushEmptyWithValue(self) ==
    [self EXCEPT !.def_levels = Append(@, 0),
                 !.rep_levels = Append(@, 0),
                 !.values = Append(@, <<>>)]

\* the num == 0 branch of push
PushEmpty(self) ==
    [self EXCEPT !.def_levels = Append(@, 0),
                 !.rep_levels = Append(@, 0)]

\* mutant: the rep_levels.push(0) of the non-empty branch is forgotten
PushNonEmptyNoStart(self, list) ==
    LET num == Len(list)
        d   == Resize(self.def_levels, Len(self.def_levels) + num, 1)
        r   == Resize(self.rep_levels, Len(self.rep_levels) + num - 1, 1)
    IN  [values |-> self.values \o list, def_levels |-> d, rep_levels |-> r]

\* mutant: the values are appended in reverse order
PushNonEmptyReversed(self, list) ==
    LET num == Len(list)
        d   == Resize(self.def_levels, Len(self.def_levels) + num, 1)
        r0  == Append(self.rep_levels, 0)
        r   == Resize(r0, Len(r0) + num - 1, 1)
        rev == [k \in 1..num |-> list[num + 1 - k]]
    IN  [values |-> self.values \o rev, def_levels |-> d, rep_levels |-> r]

\* mutant: the continuation slots are filled with repetition level 0
PushNonEmptyAllStart(self, list) ==
    LET num == Len(list)
        d   == Resize(self.def_levels, Len(self.def_levels) + num, 1)
        r0  == Append(self.rep_levels, 0)
        r   == Resize(r0, Len(r0) + num - 1, 0)
    IN  [values |-> self.values \o list, def_levels |-> d, rep_levels |-> r]

\* the num >= 1 branch of push
PushNonEmpty(self, list) ==
    LET num == Len(list)
        d   == Resize(self.def_levels, Len(self.def_levels) + num, 1)
        r0  == Append(self.rep_levels, 0)
        r   == Resize(r0, Len(r0) + num - 1, 1)
    IN  [values |-> self.values \o list, def_levels |-> d, rep_levels |-> r]

\* RepeatedWriter::push
push(self, list) ==
    IF Len(list) = 0 THEN PushEmpty(self) ELSE PushNonEmpty(self, list)

\* the leaf values offered to push: push never looks into a value, so two
\* distinct byte strings are enough to tell values and their order apart
Values == {NameBytes(0), NameBytes(1)}

\* the lists offered to push: every list over Values up to MaxListLen, and
\* the list the program itself pushes
InputLists ==
    UNION {[1..n -> Values] : n \in 0..MaxListLen} \cup {names(NamesCount)}

(***************************************************************************)
(* Containers.  A column chunk is the three arrays a column writer was     *)
(* given; a row group is a sequence of column chunks; a container is a     *)
(* sequence of row groups.                                                 *)
(***************************************************************************)
EmptyChunk == [values |-> <<>>, def_levels |-> <<>>, rep_levels |-> <<>>]

Min(a, b) == IF a <= b THEN a ELSE b

\* the list lengths of the records of a column chunk of at most budget slots
RECURSIVE LenSeqs(_)
LenSeqs(budget) ==
    {<<>>} \cup
    UNION {{<<l>> \o rest : rest \in LenSeqs(budget - (IF l = 0 THEN 1 ELSE l))}
              : l \in 0..budget}

\* a column chunk as create_small_parquet_file builds one: names(l) pushed
\* for each record, the three arrays written in one write_batch
RECURSIVE ChunkOfFrom(_, _, _)
ChunkOfFrom(lens, k, acc) ==
    IF k > Len(lens) THEN acc
    ELSE ChunkOfFrom(lens, k + 1, push(acc, names(lens[k])))

ChunkOf(lens) == ChunkOfFrom(lens, 1, RepeatedWriterNew)

\* every sequence of n column chunks holding at most budget slots together
RECURSIVE ChunkSeqs(_, _)
ChunkSeqs(n, budget) ==
    IF n = 0 THEN {<<>>}
    ELSE UNION {{<<ChunkOf(lens)>> \o rest :
                    rest \in ChunkSeqs(n - 1, budget - Len(ChunkOf(lens).def_levels))}
                  : lens \in LenSeqs(budget)}

\* the shapes of the source containers: r row groups of c columns each
Shapes ==
    {sh \in (0..MaxChunks) \X (1..MaxChunks) : sh[1] * sh[2] <= MaxChunks}

\* the source containers
Containers ==
    UNION {{[g \in 1..sh[1] |-> SubSeq(chunks, (g - 1) * sh[2] + 1, g * sh[2])] :
               chunks \in ChunkSeqs(sh[1] * sh[2], MaxSlots)}
             : sh \in Shapes}

\* reader.num_row_groups()
num_row_groups(container) == Len(container)

\* row_group_reader.num_columns()
num_columns(row_group) == Len(row_group)

\* the batch sizes explored: the program's, and 1
BatchSizes == {1, BatchSize}

(***************************************************************************)
(* The columnar engine, as main uses it.                                   *)
(***************************************************************************)
\* number of entries of s equal to x
Count(s, x) == Cardinality({k \in 1..Len(s) : s[k] = x})

\* the level counts one read_records call may return: nothing once the
\* column is exhausted, otherwise between 1 level and as many as the
\* buffers hold
ReadSizes(chunk, reader, max) ==
    LET remaining == Len(chunk.def_levels) - reader.lev
    IN  IF remaining = 0 THEN {0} ELSE 1..Min(max, remaining)

\* ColumnReader::read_records returning n levels: the next n level pairs
\* and the values of those with definition level 1
ReadRecords(chunk, reader, n) ==
    LET defs == SubSeq(chunk.def_levels, reader.lev + 1, reader.lev + n)
        reps == SubSeq(chunk.rep_levels, reader.lev + 1, reader.lev + n)
        nv   == Count(defs, 1)
        vals == SubSeq(chunk.values, reader.val + 1, reader.val + nv)
    IN  [records     |-> Count(reps, 0),
         values_read |-> nv,
         levels_read |-> n,
         values      |-> vals,
         def_levels  |-> defs,
         rep_levels  |-> reps,
         reader      |-> [lev |-> reader.lev + n, val |-> reader.val + nv]]

\* a read writes the front of a buffer and leaves the rest as it was
Overlay(buf, data) ==
    [k \in 1..Len(buf) |-> IF k <= Len(data) THEN data[k] ELSE buf[k]]

\* ColumnWriter::write_batch: the levels are appended, and as many values
\* as there are definition levels 1; "Err" when the level slices differ in
\* length or too few values are given
WriteBatchEngine(chunk, vals, defs, reps) ==
    LET nv == Count(defs, 1)
    IN  IF Len(defs) # Len(reps) \/ Len(vals) < nv
        THEN [ok |-> FALSE, chunk |-> chunk, values_written |-> 0]
        ELSE [ok |-> TRUE,
              chunk |-> [values     |-> chunk.values \o SubSeq(vals, 1, nv),
                         def_levels |-> chunk.def_levels \o defs,
                         rep_levels |-> chunk.rep_levels \o reps],
              values_written |-> nv]

\* RowGroupWriter::next_column: None once the schema has no column left
NextColumnIsNone(row_group_writer, schema_cols) ==
    Len(row_group_writer) >= schema_cols

\* RowGroupWriter::close: "Err" unless every column of the schema was written
RowGroupCloseOk(row_group_writer, schema_cols) ==
    Len(row_group_writer) = schema_cols

(***************************************************************************)
(* main: the transcoding loop                                              *)
(***************************************************************************)
NoReader == [lev |-> 0, val |-> 0]

\* vec![Default::default(); 5], [0i16; 5], [0i16; 5]
FreshValues(b) == [k \in 1..b |-> <<>>]
FreshLevels(b) == [k \in 1..b |-> 0]

\* the physical types of the schema: BYTE_ARRAY is the one main handles
PhysicalTypes == {"BYTE_ARRAY", "INT32"}

\* the arm ColumnReader::ByteArrayColumnReader, and typed::<ByteArrayType>()
IsByteArray(t) == t = "BYTE_ARRAY"

\* number of columns of a source container (1 when it has no row group)
SourceCols(c) == IF Len(c) = 0 THEN 1 ELSE Len(c[1])

\* the schema of main, "REQUIRED BYTE_ARRAY list_element", on both sides
ByteArraySchema(c, n) ==
    [src |-> [k \in 1..SourceCols(c) |-> "BYTE_ARRAY"],
     dst |-> [k \in 1..n |-> "BYTE_ARRAY"]]

\* the state of main before the first row group, for source container c,
\* a writer schema of n columns and batch size b, whatever the column types
StartLoop(c, n, b) ==
    /\ src = c
    /\ dstCols = n
    /\ batch = b
    /\ dst = <<>>
    /\ rgw = <<>>
    /\ cw = EmptyChunk
    /\ cr = NoReader
    /\ i = 0
    /\ j = 0
    /\ values = FreshValues(b)
    /\ def_levels = FreshLevels(b)
    /\ rep_levels = FreshLevels(b)
    /\ values_read = 0
    /\ levels_read = 0
    /\ pc = "row_group"
    /\ failure = "none"
    /\ acquired = {}
    /\ finalized = {}

\* the writer schemas tried against a source container: its own column
\* count, one column fewer, one column more
\* the state of main before the first row group, with the schema of main
Start(c, n, b) ==
    /\ StartLoop(c, n, b)
    /\ colTypes = ByteArraySchema(c, n)

SchemaCols(c) ==
    IF Len(c) = 0 THEN {1}
    ELSE {n \in {Len(c[1]) - 1, Len(c[1]), Len(c[1]) + 1} : n >= 0}

InitTx ==
    /\ \E c \in Containers : \E n \in SchemaCols(c) : \E b \in BatchSizes :
          Start(c, n, b)
    /\ pass = 1
    /\ first = <<>>

\* the slice buf[0..n]
Slice(buf, n) == SubSeq(buf, 1, n)

\* for i in 0..reader.num_row_groups(): get_row_group(i), next_row_group()
NextRowGroup ==
    /\ pc = "row_group"
    /\ i < num_row_groups(src)
    /\ rgw' = <<>>
    /\ j' = 0
    /\ pc' = "column"
    /\ UNCHANGED <<src, dstCols, batch, dst, cw, cr, i, values, def_levels,
                   rep_levels, values_read, levels_read, pass, first>>
    /\ UNCHANGED envVars
    /\ UNCHANGED <<acquired, finalized>>

\* the row group loop is over: writer.into_inner(), Ok(())
Finish ==
    /\ pc = "row_group"
    /\ i = num_row_groups(src)
    /\ pc' = "done"
    /\ UNCHANGED <<src, dstCols, batch, dst, rgw, cw, cr, i, j, values,
                   def_levels, rep_levels, values_read, levels_read, pass, first>>
    /\ UNCHANGED envVars
    /\ UNCHANGED <<acquired, finalized>>

\* (mutant) the buffers are allocated anew for every column
NextColumnFreshBuffers ==
    /\ pc = "column"
    /\ j < num_columns(src[i + 1])
    /\ IF NextColumnIsNone(rgw, dstCols)
       THEN /\ pc' = "panic"
            /\ UNCHANGED <<cr, cw, acquired, values, def_levels, rep_levels>>
       ELSE /\ cr' = NoReader
            /\ cw' = EmptyChunk
            /\ acquired' = acquired \cup {<<i, j>>}
            /\ values' = FreshValues(batch)
            /\ def_levels' = FreshLevels(batch)
            /\ rep_levels' = FreshLevels(batch)
            /\ pc' = IF IsByteArray(colTypes.dst[Len(rgw) + 1]) THEN "read" ELSE "panic"
    /\ UNCHANGED <<src, dstCols, batch, dst, rgw, i, j, values_read,
                   levels_read, pass, first, rw, pushed, colTypes, failure,
                   finalized>>

\* mutant: a source column without a destination column is skipped
NextColumnSkipMissing ==
    /\ pc = "column"
    /\ j < num_columns(src[i + 1])
    /\ IF NextColumnIsNone(rgw, dstCols)
       THEN /\ j' = j + 1
            /\ pc' = "column"
            /\ UNCHANGED <<cr, cw, acquired>>
       ELSE /\ cr' = NoReader
            /\ cw' = EmptyChunk
            /\ acquired' = acquired \cup {<<i, j>>}
            /\ pc' = IF IsByteArray(colTypes.dst[Len(rgw) + 1]) THEN "read" ELSE "panic"
            /\ UNCHANGED j
    /\ UNCHANGED <<src, dstCols, batch, dst, rgw, i, values, def_levels,
                   rep_levels, values_read, levels_read, pass, first>>
    /\ UNCHANGED envVars
    /\ UNCHANGED finalized

\* for j in 0..num_columns(): get_column_reader(j), next_column().expect(..),
\* column_writer.typed::<ByteArrayType>()
NextColumn ==
    /\ pc = "column"
    /\ j < num_columns(src[i + 1])
    /\ IF NextColumnIsNone(rgw, dstCols)
       THEN /\ pc' = "panic"
            /\ UNCHANGED <<cr, cw, acquired>>
       ELSE /\ cr' = NoReader
            /\ cw' = EmptyChunk
            /\ acquired' = acquired \cup {<<i, j>>}
            /\ pc' = IF IsByteArray(colTypes.dst[Len(rgw) + 1]) THEN "read" ELSE "panic"
    /\ UNCHANGED <<src, dstCols, batch, dst, rgw, i, j, values, def_levels,
                   rep_levels, values_read, levels_read, pass, first>>
    /\ UNCHANGED envVars
    /\ UNCHANGED finalized

\* (mutant) the result of column_group_writer.close() is dropped
CloseRowGroupUnchecked ==
    /\ pc = "column"
    /\ j = num_columns(src[i + 1])
    /\ dst' = Append(dst, rgw)
    /\ rgw' = <<>>
    /\ i' = i + 1
    /\ pc' = "row_group"
    /\ UNCHANGED <<src, dstCols, batch, cw, cr, j, values, def_levels,
                   rep_levels, values_read, levels_read, pass, first, rw,
                   pushed, colTypes, failure, acquired, finalized>>

\* the column loop is over: column_group_writer.close()?
CloseRowGroup ==
    /\ pc = "column"
    /\ j = num_columns(src[i + 1])
    /\ IF RowGroupCloseOk(rgw, dstCols)
       THEN /\ dst' = Append(dst, rgw)
            /\ rgw' = <<>>
            /\ i' = i + 1
            /\ pc' = "row_group"
       ELSE /\ pc' = "error"
            /\ UNCHANGED <<dst, rgw, i>>
    /\ UNCHANGED <<src, dstCols, batch, cw, cr, j, values, def_levels,
                   rep_levels, values_read, levels_read, pass, first>>
    /\ UNCHANGED envVars
    /\ UNCHANGED <<acquired, finalized>>

\* (mutant) the exit test of the loop is never true
ColumnExhaustedNever(vr, lr) == FALSE

\* (mutant) the loop ends at the first batch that does not fill the buffers
ColumnExhaustedShortRead(vr, lr) == lr < batch

\* mutant: the loop ends as soon as a batch carries no value
ColumnExhaustedNoValues(vr, lr) == vr = 0

\* the loop exit test: if values_read == 0 && levels_read == 0 { break }
ColumnExhausted(vr, lr) == vr = 0 /\ lr = 0

\* (mutant) a column of another type is taken as having no data
ReadUnsupportedSkipped ==
    /\ pc' = "close_column"
    /\ UNCHANGED <<values, def_levels, rep_levels, values_read, levels_read, cr>>

\* _ => panic!("Only implemented for byte arrays")
ReadUnsupported ==
    /\ pc' = "panic"
    /\ UNCHANGED <<values, def_levels, rep_levels, values_read, levels_read, cr>>

\* match &mut column_reader { ByteArrayColumnReader(cr) =>
\* cr.read_records(5, def_levels, rep_levels, values)?, _ => panic!(..) }
\* and the exit test
ReadBatch ==
    /\ pc = "read"
    /\ IF IsByteArray(colTypes.src[j + 1])
       THEN \E n \in ReadSizes(src[i + 1][j + 1], cr, batch) :
              LET r == ReadRecords(src[i + 1][j + 1], cr, n)
              IN  /\ values' = Overlay(values, r.values)
                  /\ def_levels' = Overlay(def_levels, r.def_levels)
                  /\ rep_levels' = Overlay(rep_levels, r.rep_levels)
                  /\ values_read' = r.values_read
                  /\ levels_read' = r.levels_read
                  /\ cr' = r.reader
                  /\ pc' = IF ColumnExhausted(r.values_read, r.levels_read)
                           THEN "close_column" ELSE "write"
       ELSE ReadUnsupported
    /\ UNCHANGED <<src, dstCols, batch, dst, rgw, cw, i, j, pass, first>>
    /\ UNCHANGED envVars
    /\ UNCHANGED <<acquired, finalized>>

\* (mutant) the value slice is cut at levels_read
WriteSlicesByLevels ==
    [values     |-> SubSeq(values, 1, levels_read),
     def_levels |-> SubSeq(def_levels, 1, levels_read),
     rep_levels |-> SubSeq(rep_levels, 1, levels_read)]

\* mutant: the level slices are cut at values_read
WriteSlicesByValues ==
    [values     |-> SubSeq(values, 1, values_read),
     def_levels |-> SubSeq(def_levels, 1, values_read),
     rep_levels |-> SubSeq(rep_levels, 1, values_read)]

\* mutant: the whole buffers are written, not the part the read filled
WriteSlicesWholeBuffer ==
    [values     |-> values,
     def_levels |-> def_levels,
     rep_levels |-> rep_levels]

\* the slices handed to write_batch
WriteSlices ==
    [values     |-> Slice(values, values_read),
     def_levels |-> Slice(def_levels, levels_read),
     rep_levels |-> Slice(rep_levels, levels_read)]

\* typed_column_writer.write_batch(&values[0..values_read],
\*     Some(&def_levels[0..levels_read]), Some(&rep_levels[0..levels_read]))?
WriteBatch ==
    /\ pc = "write"
    /\ LET w == WriteBatchEngine(cw, WriteSlices.values, WriteSlices.def_levels,
                                 WriteSlices.rep_levels)
       IN  IF w.ok
           THEN /\ cw' = w.chunk
                /\ pc' = "read"
           ELSE /\ pc' = "error"
                /\ UNCHANGED cw
    /\ UNCHANGED <<src, dstCols, batch, dst, rgw, cr, i, j, values, def_levels,
                   rep_levels, values_read, levels_read, pass, first>>
    /\ UNCHANGED envVars
    /\ UNCHANGED <<acquired, finalized>>

\* (mutant) the column is closed and the same column index is taken again
CloseColumnStays ==
    /\ pc = "close_column"
    /\ rgw' = Append(rgw, cw)
    /\ cw' = EmptyChunk
    /\ cr' = NoReader
    /\ pc' = "column"
    /\ finalized' = finalized \cup {<<i, j>>}
    /\ UNCHANGED <<src, dstCols, batch, dst, i, j, values, def_levels,
                   rep_levels, values_read, levels_read, pass, first, rw,
                   pushed, colTypes, failure, acquired>>

\* (mutant) the column index advances by two
CloseColumnSkipsNext ==
    /\ pc = "close_column"
    /\ rgw' = Append(rgw, cw)
    /\ cw' = EmptyChunk
    /\ cr' = NoReader
    /\ j' = j + 2
    /\ pc' = "column"
    /\ finalized' = finalized \cup {<<i, j>>}
    /\ UNCHANGED <<src, dstCols, batch, dst, i, values, def_levels, rep_levels,
                   values_read, levels_read, pass, first, rw, pushed, colTypes,
                   failure, acquired>>

\* (mutant) the loop goes to the next column and leaves the writer open
CloseColumnForgotten ==
    /\ pc = "close_column"
    /\ cr' = NoReader
    /\ j' = j + 1
    /\ pc' = "column"
    /\ UNCHANGED <<src, dstCols, batch, dst, rgw, cw, i, values, def_levels,
                   rep_levels, values_read, levels_read, pass, first, rw,
                   pushed, colTypes, failure, acquired, finalized>>

\* column_writer.close()?
CloseColumn ==
    /\ pc = "close_column"
    /\ rgw' = Append(rgw, cw)
    /\ cw' = EmptyChunk
    /\ cr' = NoReader
    /\ j' = j + 1
    /\ pc' = "column"
    /\ finalized' = finalized \cup {<<i, j>>}
    /\ UNCHANGED acquired
    /\ UNCHANGED <<src, dstCols, batch, dst, i, values, def_levels,
                   rep_levels, values_read, levels_read, pass, first>>
    /\ UNCHANGED envVars

\* main started again from its first row group, for source container c, a
\* writer schema of n columns and batch size b
Restart(c, n, b) ==
    /\ src' = c
    /\ dstCols' = n
    /\ batch' = b
    /\ dst' = <<>>
    /\ rgw' = <<>>
    /\ cw' = EmptyChunk
    /\ cr' = NoReader
    /\ i' = 0
    /\ j' = 0
    /\ values' = FreshValues(b)
    /\ def_levels' = FreshLevels(b)
    /\ rep_levels' = FreshLevels(b)
    /\ values_read' = 0
    /\ levels_read' = 0
    /\ pc' = "row_group"
    /\ acquired' = {}
    /\ finalized' = {}

\* the bytes the writer produced are opened as the source of a second
\* transcode, as main opens the bytes of create_small_parquet_file
Retranscode ==
    /\ pc = "done"
    /\ pass = 1
    /\ first' = dst
    /\ pass' = 2
    /\ Restart(dst, dstCols, batch)
    /\ UNCHANGED envVars

\* the same source is transcoded a second time with another batch size
RerunWithBatch ==
    /\ pc = "done"
    /\ pass = 1
    /\ first' = dst
    /\ pass' = 2
    /\ \E b \in BatchSizes \ {batch} : Restart(src, dstCols, b)
    /\ UNCHANGED envVars

\* the transcoder at rest, while only the encoder runs
TxIdle ==
    /\ Start(<<>>, 1, BatchSize)
    /\ pass = 1
    /\ first = <<>>

InitEnc ==
    /\ rw = RepeatedWriterNew
    /\ pushed = <<>>
    /\ TxIdle

\* one call repeated_writer.push(list)
Push ==
    /\ Len(pushed) < MaxPushes
    /\ \E list \in InputLists :
          /\ rw' = push(rw, list)
          /\ pushed' = Append(pushed, list)
    /\ UNCHANGED txVars

NextEnc == Push

SpecEnc == InitEnc /\ [][NextEnc]_vars

\* the transcode of main: the encoder is not running
Init ==
    /\ rw = RepeatedWriterNew
    /\ pushed = <<>>
    /\ InitTx

Next ==
    \/ NextRowGroup
    \/ Finish
    \/ NextColumn
    \/ CloseRowGroup
    \/ ReadBatch
    \/ WriteBatch
    \/ CloseColumn

Spec == Init /\ [][Next]_vars

\* a source container and a writer schema with the same columns
InitMatched ==
    /\ rw = RepeatedWriterNew
    /\ pushed = <<>>
    /\ \E c \in Containers : \E b \in BatchSizes :
          Start(c, IF Len(c) = 0 THEN 1 ELSE Len(c[1]), b)
    /\ pass = 1
    /\ first = <<>>

\* a transcode, then a transcode of its result
NextIdem ==
    \/ NextRowGroup
    \/ Finish
    \/ NextColumn
    \/ CloseRowGroup
    \/ ReadBatch
    \/ WriteBatch
    \/ CloseColumn
    \/ Retranscode

SpecIdem == InitMatched /\ [][NextIdem]_vars

\* a transcode, then a transcode of the same source with another batch size
NextBatch ==
    \/ NextRowGroup
    \/ Finish
    \/ NextColumn
    \/ CloseRowGroup
    \/ ReadBatch
    \/ WriteBatch
    \/ CloseColumn
    \/ RerunWithBatch

SpecBatch == InitMatched /\ [][NextBatch]_vars

\* the engine calls main makes with ? at its current position
PendingCalls ==
    IF pc = "row_group"
    THEN IF i < num_row_groups(src)
         THEN {"get_row_group", "next_row_group"}
         ELSE {"into_inner"}
    ELSE IF pc = "column"
    THEN IF j < num_columns(src[i + 1])
         THEN {"get_column_reader", "next_column"}
         ELSE {"row_group_close"}
    ELSE IF pc = "read" THEN {"read_records"}
    ELSE IF pc = "write" THEN {"write_batch"}
    ELSE IF pc = "close_column" THEN {"column_close"}
    ELSE {}

\* (mutant) the Err of a call is dropped and main goes on
EngineFailsIgnored ==
    /\ \E call \in PendingCalls : failure' = call
    /\ UNCHANGED <<src, dstCols, batch, dst, rgw, cw, cr, i, j, values,
                   def_levels, rep_levels, values_read, levels_read, pc, pass,
                   first, rw, pushed, colTypes, acquired, finalized>>

\* a call returns Err and ? returns it from main
EngineFails ==
    /\ \E call \in PendingCalls : failure' = call
    /\ pc' = "error"
    /\ UNCHANGED <<src, dstCols, batch, dst, rgw, cw, cr, i, j, values,
                   def_levels, rep_levels, values_read, levels_read, pass,
                   first, rw, pushed, colTypes, acquired, finalized>>

\* the transcode of main with an engine whose calls can fail
NextErr ==
    \/ NextRowGroup
    \/ Finish
    \/ NextColumn
    \/ CloseRowGroup
    \/ ReadBatch
    \/ WriteBatch
    \/ CloseColumn
    \/ EngineFails

SpecErr == Init /\ [][NextErr]_vars

\* the transcode of a source with a matching writer schema, in which main
\* keeps running: every call returns (section 5: each call blocks until the
\* engine returns) and the process is not stopped from outside
SpecLive == InitMatched /\ [][Next]_vars /\ WF_vars(Next)

\* the column types a file and a writer of n columns can have: any types in
\* the file, and a writer given the schema of the file or the schema of main
Schemas(n) ==
    {[src |-> t, dst |-> d] :
        t \in [1..n -> PhysicalTypes],
        d \in {[k \in 1..n |-> "BYTE_ARRAY"]}} \cup
    {[src |-> t, dst |-> t] : t \in [1..n -> PhysicalTypes]}

\* a source container whose columns have any physical types
InitTypes ==
    /\ rw = RepeatedWriterNew
    /\ pushed = <<>>
    /\ \E c \in Containers : \E b \in BatchSizes :
          /\ StartLoop(c, SourceCols(c), b)
          /\ colTypes \in Schemas(SourceCols(c))
    /\ pass = 1
    /\ first = <<>>

NextTypes ==
    \/ NextRowGroup
    \/ Finish
    \/ NextColumn
    \/ CloseRowGroup
    \/ ReadBatch
    \/ WriteBatch
    \/ CloseColumn

SpecTypes == InitTypes /\ [][NextTypes]_vars

(***************************************************************************)
(* Properties of the encoder (checked under SpecEnc).                      *)
(***************************************************************************)
\* the inverse of the level scheme: repetition level 0 starts a record,
\* repetition level 1 continues it, definition level 1 consumes the next
\* value, definition level 0 consumes none
RECURSIVE DecodeFrom(_, _, _, _, _, _)
DecodeFrom(vals, defs, reps, k, vi, acc) ==
    IF k > Len(defs) \/ k > Len(reps) THEN acc
    ELSE LET opened == IF reps[k] = 0 \/ acc = <<>> THEN Append(acc, <<>>) ELSE acc
             value  == IF vi <= Len(vals) THEN vals[vi] ELSE <<"missing">>
             filled == IF defs[k] = 1
                       THEN [opened EXCEPT ![Len(opened)] = Append(@, value)]
                       ELSE opened
         IN  DecodeFrom(vals, defs, reps, k + 1,
                        IF defs[k] = 1 THEN vi + 1 ELSE vi, filled)

Decode(vals, defs, reps) == DecodeFrom(vals, defs, reps, 1, 1, <<>>)

\* number of level slots a list occupies
SlotsOf(list) == IF Len(list) = 0 THEN 1 ELSE Len(list)

\* index of the first slot of the k-th pushed record
RECURSIVE StartOf(_)
StartOf(k) == IF k = 1 THEN 1 ELSE StartOf(k - 1) + SlotsOf(pushed[k - 1])

\* this step is one push call; the list pushed is Last(pushed')
IsPush == Len(pushed') = Len(pushed) + 1

\* C1: decoding the three arrays by the inverse of the level scheme gives
\* back exactly the lists pushed: same number of records, same order, same
\* values, every empty list present as a zero-length record.
C1_RoundTrip ==
    Decode(rw.values, rw.def_levels, rw.rep_levels) = pushed

\* C1 witness: three pushes, an empty list between two non-empty ones
C1_Witness ==
    /\ Len(pushed) = 3
    /\ Len(pushed[1]) = 2 /\ pushed[2] = <<>> /\ Len(pushed[3]) = 1
    /\ Len(rw.def_levels) = 4

\* C2: after any sequence of push calls def_levels and rep_levels have the
\* same length.
C2_LevelsSameLength ==
    Len(rw.def_levels) = Len(rw.rep_levels)

\* C2 witness: empty and non-empty lists pushed in both orders
C2_Witness ==
    /\ Len(pushed) = 3
    /\ pushed[1] = <<>> /\ Len(pushed[2]) = 2 /\ pushed[3] = <<>>
    /\ Len(rw.rep_levels) = 4

\* C3: len(values) is the number of definition levels equal to 1, every
\* definition level is 0 or 1, and len(values) <= len(def_levels).
C3_ValuesMatchDefined ==
    /\ Len(rw.values) = Count(rw.def_levels, 1)
    /\ \A k \in 1..Len(rw.def_levels) : rw.def_levels[k] \in {0, 1}
    /\ Len(rw.values) <= Len(rw.def_levels)

\* C3 witness: fewer values than slots, because an empty list was pushed
C3_Witness ==
    /\ Len(pushed) = 2
    /\ Len(rw.values) = 2
    /\ Len(rw.def_levels) = 3
    /\ Count(rw.def_levels, 0) = 1

\* C4: a push of N >= 1 values appends N definition levels 1, the
\* repetition levels 0,1,..,1 (N of them) and the N values in order, and
\* changes nothing accumulated before; two pushes of the same 4-element
\* list give eight definition levels 1 and repetition levels
\* 0,1,1,1,0,1,1,1.
C4_PushNonEmptyAppends ==
    [][ /\ (IsPush /\ Len(Last(pushed')) >= 1) =>
            LET list == Last(pushed')
                N    == Len(list)
            IN  /\ rw'.def_levels = rw.def_levels \o [k \in 1..N |-> 1]
                /\ rw'.rep_levels =
                       rw.rep_levels \o [k \in 1..N |-> IF k = 1 THEN 0 ELSE 1]
                /\ rw'.values = rw.values \o list
        /\ (IsPush /\ Len(pushed') = 2 /\ pushed'[1] = pushed'[2]
                   /\ Len(pushed'[1]) = 4) =>
            /\ rw'.def_levels = <<1, 1, 1, 1, 1, 1, 1, 1>>
            /\ rw'.rep_levels = <<0, 1, 1, 1, 0, 1, 1, 1>>
            /\ rw'.values = pushed'[1] \o pushed'[1]
      ]_vars

\* C4 witness: the program's own run, names(4) pushed twice
C4_Witness ==
    /\ pushed = <<names(NamesCount), names(NamesCount)>>
    /\ Len(rw.values) = 8

\* C5: a push of an empty list appends one definition level 0 and one
\* repetition level 0 and leaves values as it was; an empty list followed
\* by a 2-element list gives def_levels 0,1,1, rep_levels 0,0,1 and the two
\* elements as values.
C5_PushEmptyAppends ==
    [][ /\ (IsPush /\ Last(pushed') = <<>>) =>
            /\ rw'.def_levels = Append(rw.def_levels, 0)
            /\ rw'.rep_levels = Append(rw.rep_levels, 0)
            /\ rw'.values = rw.values
        /\ (IsPush /\ Len(pushed') = 2 /\ pushed'[1] = <<>>
                   /\ Len(pushed'[2]) = 2) =>
            /\ rw'.def_levels = <<0, 1, 1>>
            /\ rw'.rep_levels = <<0, 0, 1>>
            /\ rw'.values = pushed'[2]
      ]_vars

\* C5 witness: an empty list pushed onto an encoder that already holds
\* values
C5_Witness ==
    /\ Len(pushed) >= 2
    /\ Last(pushed) = <<>>
    /\ Len(rw.values) >= 1
    /\ Last(rw.def_levels) = 0

\* C6: after k pushes rep_levels holds exactly k zeros, one at the first
\* slot of each pushed record, every other slot has repetition level 1,
\* and every slot with definition level 0 has repetition level 0.
C6_RecordStarts ==
    LET n      == Len(rw.rep_levels)
        starts == {StartOf(k) : k \in 1..Len(pushed)}
    IN  /\ Count(rw.rep_levels, 0) = Len(pushed)
        /\ \A p \in 1..n :
              rw.rep_levels[p] = (IF p \in starts THEN 0 ELSE 1)
        /\ n > 0 => rw.rep_levels[1] = 0
        /\ \A p \in 1..n :
              (p <= Len(rw.def_levels) /\ rw.def_levels[p] = 0)
                  => rw.rep_levels[p] = 0

\* C6 witness: three records, the middle one with continuation slots
C6_Witness ==
    /\ Len(pushed) = 3
    /\ Len(pushed[1]) = 1 /\ Len(pushed[2]) = 2 /\ pushed[3] = <<>>
    /\ rw.rep_levels = <<0, 0, 1, 0>>

(***************************************************************************)
(* Properties of the transcoder.                                           *)
(***************************************************************************)
\* the first lev level pairs and val values of a column chunk
Prefix(chunk, lev, val) ==
    [values     |-> SubSeq(chunk.values, 1, val),
     def_levels |-> SubSeq(chunk.def_levels, 1, lev),
     rep_levels |-> SubSeq(chunk.rep_levels, 1, lev)]

\* a column is open: its reader and writer were acquired and not yet closed
ColumnOpen == pc \in {"read", "write", "close_column"}

\* some column chunk of the container is longer than b slots and holds both
\* an empty-list slot and a value slot
HasLongMixedColumn(container, b) ==
    \E g \in 1..Len(container) : \E c \in 1..Len(container[g]) :
        /\ Len(container[g][c].def_levels) > b
        /\ Count(container[g][c].def_levels, 0) >= 1
        /\ Count(container[g][c].def_levels, 1) >= 1

\* C7: when the transcode completes, every destination column holds the
\* values and the level pairs of its source column, in order; on the way
\* every closed row group and closed column equals its source, and the open
\* column holds exactly what was read and written so far.
C7_Fidelity ==
    /\ pc = "done" => dst = src
    /\ Len(dst) <= Len(src) /\ dst = SubSeq(src, 1, Len(dst))
    /\ rgw # <<>> =>
          /\ i < Len(src)
          /\ Len(rgw) <= Len(src[i + 1])
          /\ rgw = SubSeq(src[i + 1], 1, Len(rgw))
    /\ pc \in {"read", "close_column"} =>
          cw = Prefix(src[i + 1][j + 1], cr.lev, cr.val)
    /\ pc = "write" =>
          cw = Prefix(src[i + 1][j + 1], cr.lev - levels_read,
                      cr.val - values_read)
    /\ pc = "close_column" =>
          /\ cr.lev = Len(src[i + 1][j + 1].def_levels)
          /\ cr.val = Len(src[i + 1][j + 1].values)

\* C7 witness: a finished transcode, batch size 1, of two row groups with a
\* column longer than the batch that has an empty-list slot
C7_Witness ==
    /\ pc = "done"
    /\ pass = 1
    /\ batch = 1
    /\ Len(src) = 2
    /\ Len(dst) = 2
    /\ HasLongMixedColumn(dst, batch)

\* C8: a second transcode of the same source with another batch size ends
\* with the same destination content as the first.
C8_BatchSizeIndependent ==
    (pass = 2 /\ pc = "done") =>
        /\ Len(dst) = Len(first)
        /\ \A g \in 1..Len(first) :
              /\ Len(dst[g]) = Len(first[g])
              /\ \A c \in 1..Len(first[g]) :
                    /\ dst[g][c].values = first[g][c].values
                    /\ dst[g][c].def_levels = first[g][c].def_levels
                    /\ dst[g][c].rep_levels = first[g][c].rep_levels

\* C8 witness: batch size 1 first, then the program's batch size, both runs
\* finished, over a container with a column longer than one slot
C8_Witness ==
    /\ pass = 2
    /\ pc = "done"
    /\ batch = BatchSize
    /\ Len(first) = 2
    /\ HasLongMixedColumn(first, 1)
    /\ dst = first

\* C9: transcoding the result of a transcode gives the result again.
C9_Idempotent ==
    (pass = 2 /\ pc = "done") => dst = first

\* C9 witness: the second transcode finished over a result with several
\* columns, one of them with empty-list and value slots
C9_Witness ==
    /\ pass = 2
    /\ pc = "done"
    /\ src = first
    /\ Len(first) = 1 /\ Len(first[1]) >= 2
    /\ HasLongMixedColumn(first, 1)
    /\ dst = first

\* the writer schema has one column fewer than the source row groups
OneColumnFewer ==
    /\ Len(src) >= 1
    /\ dstCols = Len(src[1]) - 1

\* C10 as stated: with one destination column fewer, no column of the row
\* group is finalized before the failure and the run never completes.
C10_NoColumnFinalized ==
    OneColumnFewer => (pc # "done" /\ rgw = <<>>)

\* C10 as amended: with one destination column fewer the run never
\* completes and closes no row group; it panics in the first row group when
\* it asks for the destination column of the last source column, after the
\* columns before it were finalized, and that last column is never opened.
C10_MismatchIsFatal ==
    OneColumnFewer =>
        /\ pc \notin {"done", "error"}
        /\ dst = <<>>
        /\ i = 0
        /\ Len(rgw) <= dstCols
        /\ ColumnOpen => j < dstCols
        /\ pc = "panic" =>
              /\ j = dstCols
              /\ Len(rgw) = dstCols
              /\ cw = EmptyChunk

\* C10 witness: the panic, with a column of the row group already finalized
C10_Witness ==
    /\ OneColumnFewer
    /\ pc = "panic"
    /\ Len(rgw) >= 1
    /\ Len(rgw[1].def_levels) >= 1


(***************************************************************************)
(* Properties of the failure paths of the transcoder.                      *)
(***************************************************************************)
\* the columns of the source whose type is not the byte-string type
Unsupported == {u \in 1..Len(colTypes.src) : ~IsByteArray(colTypes.src[u])}

\* C11: when a source row group has a column of a type other than the
\* byte-string type, the transcode never completes, that column is never
\* written to nor closed in the destination (in no row group), and no row
\* group is closed in the destination.
C11_UnsupportedTypeIsFatal ==
    (Len(src) >= 1 /\ Unsupported # {}) =>
        /\ pc # "done"
        /\ dst = <<>>
        /\ i = 0
        /\ \A u \in Unsupported :
              /\ j <= u - 1
              /\ Len(rgw) <= u - 1
              /\ \A r \in 0..Len(src) : <<r, u - 1>> \notin finalized
              /\ j = u - 1 => pc \notin {"write", "close_column"}

\* C11 witness: the panic of the match, at a second column of another type
\* whose writer was acquired, after the first column was drained and closed
C11_Witness ==
    /\ pc = "panic"
    /\ j = 1
    /\ j + 1 \in Unsupported
    /\ IsByteArray(colTypes.dst[j + 1])
    /\ <<0, 1>> \in acquired
    /\ <<0, 0>> \in finalized
    /\ Len(src[1][1].def_levels) > 0

\* C12: a call of the engine that returns Err ends the run at once: the
\* failing step changes nothing of the destination and ends in the error
\* exit, no step of main follows a failure (no retry, no further read, write
\* or close), and the error exit is not the successful one.
C12_FailureAborts ==
    [][/\ failure = "none"
       /\ pc # "error"
       /\ failure' # "none" =>
             /\ pc' = "error"
             /\ UNCHANGED <<dst, rgw, cw, cr, i, j, acquired, finalized>>]_vars

\* C12 witness: write_batch failed in the second column of a row group, with
\* the first column closed and data already written to the second
C12_Witness ==
    /\ failure = "write_batch"
    /\ pc = "error"
    /\ Len(rgw) = 1
    /\ Len(rgw[1].def_levels) > 0
    /\ Len(cw.def_levels) > 0

(***************************************************************************)
(* Properties of the order of the steps of the transcoder.                 *)
(***************************************************************************)
\* C13: a column is acquired only after the column before it in its row
\* group was closed; a row group closed in the destination has every column
\* of the source row group closed; and a column of row group r is acquired
\* only after the r row groups before it were closed.
C13_CloseOrder ==
    /\ \A p \in acquired : p[2] >= 1 => <<p[1], p[2] - 1>> \in finalized
    /\ \A r \in 1..Len(dst) :
          \A c \in 1..num_columns(src[r]) : <<r - 1, c - 1>> \in finalized
    /\ \A p \in acquired : Len(dst) >= p[1]
    /\ pc \in {"column", "read", "write", "close_column"} => Len(dst) = i

\* C13 witness: a run that acquired and closed two columns, one after the
\* other, and then closed their row group
C13_Witness ==
    /\ pc = "done"
    /\ Len(dst) = 1
    /\ acquired = {<<0, 0>>, <<0, 1>>}
    /\ finalized = acquired
    /\ Len(dst[1][2].def_levels) > 0

\* <<r1, c1>> comes before <<r2, c2>> in the order of the two loops
Before(p, q) == p[1] < q[1] \/ (p[1] = q[1] /\ p[2] < q[2])

\* the <<row group, column>> pairs of the source that come before pair q
Earlier(q) ==
    UNION {{<<r - 1, c - 1>> : c \in 1..num_columns(src[r])} : r \in 1..q[1]} \cup
    {<<q[1], c - 1>> : c \in 1..q[2]}

\* C14: row groups and columns are taken in ascending order without gaps: a
\* step that acquires a column acquires the column <<i, j>> of the loop
\* indices, which was never acquired before and comes after every column
\* acquired so far; the columns acquired are always exactly the columns of
\* the source that come before the last one; the indices only grow, by one;
\* and, at every moment, destination column j of row group i holds a prefix
\* of source column j of row group i.
C14_AscendingOrder ==
    /\ [](/\ \A q \in acquired : Earlier(q) \subseteq acquired
          /\ \A q \in acquired : q = <<i, j>> \/ Before(q, <<i, j>>)
          /\ ColumnOpen =>
                \E lev \in 0..Len(src[i + 1][j + 1].def_levels) :
                \E val \in 0..Len(src[i + 1][j + 1].values) :
                    cw = Prefix(src[i + 1][j + 1], lev, val)
          /\ pc \in {"column", "read", "write", "close_column"} =>
                \A c \in 1..Len(rgw) : rgw[c] = src[i + 1][c])
    /\ [][/\ acquired' # acquired =>
               /\ acquired' = acquired \cup {<<i, j>>}
               /\ <<i, j>> \notin acquired
               /\ \A p \in acquired : Before(p, <<i, j>>)
          /\ i' = i \/ (i' = i + 1 /\ pc = "column" /\ j = num_columns(src[i + 1]))
          /\ j' = j \/ (j' = j + 1 /\ pc = "close_column")
                    \/ (j' = 0 /\ pc = "row_group")]_vars

\* C14 witness: the third column of a row group is being written, after the
\* first and the second, in that order
C14_Witness ==
    /\ pc = "write"
    /\ i = 0
    /\ j = 2
    /\ acquired = {<<0, 0>>, <<0, 1>>, <<0, 2>>}
    /\ finalized = {<<0, 0>>, <<0, 1>>}
    /\ Len(rgw) = 2

\* C15: a read ends the drain of a column exactly when it returns no value
\* and no level, and then nothing is written for it; every other read, a
\* read of empty-list slots only included, is followed by a write of its
\* levels and values to the open column and then by another read; the column
\* is closed only from such a terminating read.
C15_DrainExit ==
    [][/\ pc = "read" =>
             /\ pc' \in {"write", "close_column"}
             /\ pc' = "close_column" <=> (values_read' = 0 /\ levels_read' = 0)
             /\ cw' = cw
       /\ pc = "write" =>
             /\ values_read > 0 \/ levels_read > 0
             /\ pc' = "read"
             /\ Len(cw'.def_levels) = Len(cw.def_levels) + levels_read
             /\ Len(cw'.rep_levels) = Len(cw.rep_levels) + levels_read
             /\ Len(cw'.values) = Len(cw.values) + values_read
       /\ pc' = "close_column" => pc = "read"
       /\ pc = "close_column" =>
             /\ values_read = 0 /\ levels_read = 0
             /\ rgw' = Append(rgw, cw)]_vars

\* C15 witness: a batch of empty-list slots only, no value, was written and
\* the loop is back at the read
C15_Witness ==
    /\ pc = "read"
    /\ values_read = 0
    /\ levels_read > 0
    /\ Len(cw.def_levels) = levels_read
    /\ cw.values = <<>>
    /\ cr.lev = levels_read

\* every column of every row group of the source was closed
AllColumnsClosed ==
    \A r \in 1..Len(src) : \A c \in 1..num_columns(src[r]) :
        <<r - 1, c - 1>> \in finalized

\* C16: with a matching schema, an engine that returns at least one level
\* pair per read while the column has data and (0, 0) at its end, and no
\* error, the run eventually completes with every column and every row
\* group of the source closed.
C16_Terminates ==
    <>(pc = "done" /\ AllColumnsClosed /\ Len(dst) = Len(src))

\* C16 witness: a completed run over two row groups that needed several
\* reads for a column
C16_Witness ==
    /\ pc = "done"
    /\ batch = 1
    /\ Len(src) = 2
    /\ Len(dst) = 2
    /\ AllColumnsClosed
    /\ Len(src[1][1].def_levels) >= 2

(***************************************************************************)
(* Properties of the buffers of the transcoder.                            *)
(***************************************************************************)
\* the drain of a column begins: its pair is acquired and nothing was read
DrainBegins == pc = "read" /\ cr = NoReader

\* the buffers are as main allocated them
BuffersFresh ==
    /\ values = FreshValues(batch)
    /\ def_levels = FreshLevels(batch)
    /\ rep_levels = FreshLevels(batch)

\* C17 as stated: when the drain of a column begins, the buffers hold
\* nothing left over from the column before. Violated: nothing resets them.
C17_ResetAcrossColumns == DrainBegins => BuffersFresh

\* C17, amended: the three buffers keep their B entries for the whole run and
\* are never reset: only a read changes them, and a read changes only the
\* entries it fills (the first levels_read levels, the first values_read
\* values); acquiring a column, writing and closing leave them as they are.
C17_BuffersOnlyOverwritten ==
    [][/\ Len(values') = batch
       /\ Len(def_levels') = batch
       /\ Len(rep_levels') = batch
       /\ pc # "read" => UNCHANGED <<values, def_levels, rep_levels>>
       /\ pc = "read" =>
             \A k \in 1..batch :
                 /\ k > levels_read' =>
                       (def_levels'[k] = def_levels[k] /\ rep_levels'[k] = rep_levels[k])
                 /\ k > values_read' => values'[k] = values[k]]_vars

\* C17 witness: the drain of a second column begins with the values and
\* levels of the first column still in the buffers
C17_Witness ==
    /\ DrainBegins
    /\ j = 1
    /\ values # FreshValues(batch)
    /\ rep_levels # FreshLevels(batch)
    /\ values[1] = src[i + 1][1].values[1]

(***************************************************************************)
(* Column counts that differ, in either direction.                         *)
(***************************************************************************)
\* the writer schema has one column more than the source row groups
OneColumnMore ==
    /\ Len(src) >= 1
    /\ dstCols = Len(src[1]) + 1

C19_SlicesInBounds ==
    pc = "write" =>
        /\ Len(values) = batch /\ Len(def_levels) = batch /\ Len(rep_levels) = batch
        /\ values_read <= batch
        /\ levels_read <= batch
        /\ values_read <= levels_read
        /\ Len(WriteSlices.values) = values_read
        /\ Len(WriteSlices.def_levels) = levels_read
        /\ Len(WriteSlices.rep_levels) = levels_read
        /\ WriteSlices.values =
              SubSeq(src[i + 1][j + 1].values, cr.val - values_read + 1, cr.val)
        /\ WriteSlices.def_levels =
              SubSeq(src[i + 1][j + 1].def_levels, cr.lev - levels_read + 1, cr.lev)
        /\ WriteSlices.rep_levels =
              SubSeq(src[i + 1][j + 1].rep_levels, cr.lev - levels_read + 1, cr.lev)

\* C19 witness: a batch of one empty-list slot is about to be written while
\* the buffers still hold, behind it, a value and a level of a larger batch
C19_Witness ==
    /\ pc = "write"
    /\ batch = BatchSize
    /\ levels_read = 1
    /\ values_read = 0
    /\ values[1] # <<>>
    /\ rep_levels[2] = 1

(***************************************************************************)
(* The life of a destination column writer.                                *)
(***************************************************************************)
\* the columns whose writer was acquired and not yet closed
OpenColumns == acquired \ finalized

\* C20: at most one destination column is open, and it is column j of the
\* open row group i; only a write step adds to a destination column, and it
\* adds to that open column; a column is acquired once, closed once after
\* that, and never acquired or written again.
C20_OneOpenColumn ==
    /\ [](/\ Cardinality(OpenColumns) <= 1
          /\ OpenColumns \subseteq {<<i, j>>}
          /\ finalized \subseteq acquired
          /\ ColumnOpen => (OpenColumns = {<<i, j>>} /\ Len(dst) = i /\ Len(rgw) = j)
          /\ ~ColumnOpen => (OpenColumns = {} /\ cw = EmptyChunk))
    /\ [][/\ acquired \subseteq acquired'
          /\ finalized \subseteq finalized'
          /\ acquired' # acquired =>
                (acquired' = acquired \cup {<<i, j>>} /\ <<i, j>> \notin acquired)
          /\ finalized' # finalized =>
                /\ finalized' = finalized \cup {<<i, j>>}
                /\ OpenColumns = {<<i, j>>}
                /\ rgw' = Append(rgw, cw)
          /\ (cw' # cw /\ cw' # EmptyChunk) =>
                /\ pc = "write"
                /\ OpenColumns = {<<i, j>>}
                /\ UNCHANGED <<i, j, rgw, dst, acquired, finalized>>
          /\ rgw' # rgw => (finalized' # finalized \/ rgw' = <<>>)]_vars

\* C20 witness: the column of a second row group is open and written to,
\* after the column of the first row group was closed
C20_Witness ==
    /\ pc = "read"
    /\ i = 1
    /\ OpenColumns = {<<1, 0>>}
    /\ finalized = {<<0, 0>>}
    /\ Len(cw.def_levels) > 0
    /\ Len(dst) = 1

=============================================================================
